---- MODULE Spec2Model ----
(***************************************************************************)
(* ObjectHub (mmengine/registry/object_hub.py): a named registry mapping   *)
(* aliases to runtime objects, with resolution of dotted reference paths.  *)
(*                                                                         *)
(* Python strings are sequences of one-character strings.  The character   *)
(* "sup2" stands for U+00B2 SUPERSCRIPT TWO, a character for which         *)
(* str.isdigit() is true and int() raises ValueError.                      *)
(***************************************************************************)
EXTENDS Integers, Sequences, FiniteSets, TLC

VARIABLES objects, name, call, result, pre, removed, was_removed, threads

vars == <<objects, name, call, result, pre, removed, was_removed, threads>>

----------------------------------------------------------------------------
(* Bounds of the model *)

\* the largest number of characters in a key path given to resolve
MaxPathLen == 5

----------------------------------------------------------------------------
(* Python strings *)

\* str.isdigit(): characters with the Unicode property Digit
DigitChars == {"0", "1", "7", "sup2"}

\* characters int() accepts as digits (Unicode category Nd), with their value
DecimalChars == {"0", "1", "7"}

DecimalValue(c) == CASE c = "0" -> 0 [] c = "1" -> 1 [] c = "7" -> 7

\* attr.startswith('__'): only names with two leading underscores are private
startswith_dunder(attr) == Len(attr) > 1 /\ attr[1] = "_" /\ attr[2] = "_"

\* attr.startswith('_')
startswith_underscore(attr) == Len(attr) > 0 /\ attr[1] = "_"

\* attr.isdigit(): non-empty and every character is a digit character
isdigit(attr) == Len(attr) > 0 /\ \A i \in 1..Len(attr) : attr[i] \in DigitChars

\* int(attr) is defined (does not raise ValueError) for a string of digit
\* characters exactly when every character is a decimal digit
int_defined(attr) == Len(attr) > 0 /\ \A i \in 1..Len(attr) : attr[i] \in DecimalChars

RECURSIVE int(_)
int(attr) ==
    IF Len(attr) = 0 THEN 0
    ELSE 10 * int(SubSeq(attr, 1, Len(attr) - 1)) + DecimalValue(attr[Len(attr)])

\* key_path.split('.'): the segments between the dots, empty segments kept
RECURSIVE split(_)
split(s) ==
    IF \A i \in 1..Len(s) : s[i] # "."
    THEN <<s>>
    ELSE LET d == CHOOSE i \in 1..Len(s) :
                      s[i] = "." /\ \A j \in 1..(i - 1) : s[j] # "."
         IN  <<SubSeq(s, 1, d - 1)>> \o split(SubSeq(s, d + 1, Len(s)))

\* '.'.join(segments)
RECURSIVE join(_)
join(segs) ==
    IF Len(segs) = 0 THEN <<>>
    ELSE IF Len(segs) = 1 THEN segs[1]
    ELSE segs[1] \o <<".">> \o join(Tail(segs))

----------------------------------------------------------------------------
(* Runtime values: kind is the shape the traversal dispatches on, type is  *)
(* type(x).__name__, n the payload of an int, items the elements of a      *)
(* list or tuple, keys the content of a dict, attrs the attributes that    *)
(* getattr finds.                                                          *)

NoFields == [k \in {} |-> 0]

Value(kind, type, n, items, keys, attrs) ==
    [kind |-> kind, type |-> type, n |-> n, items |-> items,
     keys |-> keys, attrs |-> attrs]

IntVal(n) == Value("int", "int", n, <<>>, NoFields, NoFields)

ListVal(items) == Value("list", "list", 0, items, NoFields, NoFields)

DictVal(keys) == Value("dict", "dict", 0, <<>>, keys, NoFields)

\* a namedtuple instance: a tuple whose fields are also attributes
TupleVal(type, items, attrs) == Value("tuple", type, 0, items, NoFields, attrs)

\* an instance of a user class with the given attributes
ObjectVal(type, attrs) == Value("object", type, 0, <<>>, NoFields, attrs)

\* None: what register, unregister and clear return
None == Value("NoneType", "NoneType", 0, <<>>, NoFields, NoFields)

\* Pt = namedtuple('Pt', ['a']); Pt(10)
Pt == TupleVal("Pt", <<IntVal(10)>>, (<<"a">> :> IntVal(10)))

\* [10, Pt(10)]
Lst == ListVal(<<IntVal(10), Pt>>)

\* an object with the public attribute a = Lst and the private attribute _ = 7
Obj == ObjectVal("Obj", (<<"a">> :> Lst) @@ (<<"_">> :> IntVal(7)))

\* {'a': Obj, '1': 7, '_': 7}
Cfg == DictVal((<<"a">> :> Obj) @@ (<<"1">> :> IntVal(7)) @@ (<<"_">> :> IntVal(7)))

\* the objects callers register
RegValues == {Cfg, Lst, Obj}

----------------------------------------------------------------------------
(* Inputs *)

\* an alias argument: a str (isStr) with content s, or a non-str such as 123
StrAlias(s) == [isStr |-> TRUE, s |-> s]

IntAlias(s) == [isStr |-> FALSE, s |-> s]

ValidAliases == {StrAlias(<<"a">>), StrAlias(<<"a", ".", "a">>)}

AliasInputs == ValidAliases \cup {StrAlias(<<>>), IntAlias(<<"1">>)}

\* the names a registry instance is constructed with (the default is the empty string)
HubNames == {<<>>, <<"x">>}

\* first segments and traversal steps of the key paths given to resolve
FirstSegments == {<<>>, <<"a">>}

Steps == {<<"a">>, <<"_">>, <<"1">>, <<"0", "1">>, <<"7">>, <<"sup2">>,
          <<"-", "1">>}

\* a step takes a dot and at least one character of the path
StepSeqs == UNION {[1..n -> Steps] : n \in 0..(MaxPathLen \div 2)}

KeyPaths ==
    {p \in {join(<<f>> \o ss) : f \in FirstSegments, ss \in StepSeqs} :
        Len(p) <= MaxPathLen}

----------------------------------------------------------------------------
(* The dict self._objects: an insertion-ordered sequence of items [k, v]   *)

\* list(d.keys())
dict_keys(d) == [i \in 1..Len(d) |-> d[i].k]

\* k in d
contains(d, k) == \E i \in 1..Len(d) : d[i].k = k

\* d[k], for k in d
getitem(d, k) == d[CHOOSE i \in 1..Len(d) : d[i].k = k].v

\* self._objects = {k: v}: the assignment replaces the whole dict
setitem_fresh(d, k, v) == <<[k |-> k, v |-> v]>>

\* d[k] = v: a present key keeps its position, a new key is appended
setitem(d, k, v) ==
    IF contains(d, k)
    THEN [i \in 1..Len(d) |-> IF d[i].k = k THEN [k |-> k, v |-> v] ELSE d[i]]
    ELSE Append(d, [k |-> k, v |-> v])

\* del d[k], for k in d
delitem(d, k) == SelectSeq(d, LAMBDA e : e.k # k)

----------------------------------------------------------------------------
(* Outcomes of a call: kind is "return" or the error of the specification  *)
(* (exc is the Python exception class raised), followed by the data the    *)
(* error message carries.                                                  *)

Outcome(kind, exc, val, ref, hub, available, keyPath, step, typeName) ==
    [kind |-> kind, exc |-> exc, val |-> val, ref |-> ref, hub |-> hub,
     available |-> available, keyPath |-> keyPath, step |-> step,
     typeName |-> typeName]

Return(val) == Outcome("return", "", val, <<>>, <<>>, <<>>, <<>>, <<>>, "")

Raise(kind, exc) == Outcome(kind, exc, None, <<>>, <<>>, <<>>, <<>>, <<>>, "")

----------------------------------------------------------------------------
(* ObjectHub.register *)

\* not alias: the type of the alias is not examined
invalid_alias_falsy(alias) == alias.isStr /\ Len(alias.s) = 0

\* not isinstance(alias, str) or not alias
invalid_alias(alias) == ~alias.isStr \/ Len(alias.s) = 0

\* alias in self._objects and force
collision_inverted(objs, alias, force) == contains(objs, alias) /\ force

\* alias in self._objects
collision_ignores_force(objs, alias, force) == contains(objs, alias)

\* alias in self._objects and not force
collision(objs, alias, force) == contains(objs, alias) /\ ~force

\* the dict after the call and the outcome of the call
register(objs, alias, obj, force) ==
    IF invalid_alias(alias)
    THEN [objects |-> objs, result |-> Raise("InvalidAlias", "ValueError")]
    ELSE IF collision(objs, alias, force)
    THEN [objects |-> objs, result |-> Raise("AliasCollision", "ValueError")]
    ELSE [objects |-> setitem(objs, alias, obj), result |-> Return(None)]

----------------------------------------------------------------------------
(* ObjectHub.resolve *)

\* the body of the try statement for one step: exc is "" and v the value
\* looked up, or exc is the class of the exception the lookup raises
Found(v) == [exc |-> "", v |-> v]

Raised(exc) == [exc |-> exc, v |-> None]

\* current_obj[attr] on a dict
dict_getitem(current_obj, attr) ==
    IF attr \in DOMAIN current_obj.keys
    THEN Found(current_obj.keys[attr])
    ELSE Raised("KeyError")

\* current_obj[int(attr) - 1]: positions counted from one, and position
\* zero read as index -1, the last element
seq_getitem_one_based(current_obj, attr) ==
    IF ~int_defined(attr) THEN Raised("ValueError")
    ELSE IF int(attr) = 0 /\ Len(current_obj.items) > 0
    THEN Found(current_obj.items[Len(current_obj.items)])
    ELSE IF int(attr) >= 1 /\ int(attr) <= Len(current_obj.items)
    THEN Found(current_obj.items[int(attr)])
    ELSE Raised("IndexError")

\* current_obj[int(attr)] on a list or tuple
seq_getitem(current_obj, attr) ==
    IF ~int_defined(attr) THEN Raised("ValueError")
    ELSE IF int(attr) < Len(current_obj.items)
    THEN Found(current_obj.items[int(attr) + 1])
    ELSE Raised("IndexError")

\* getattr(current_obj, attr)
getattr(current_obj, attr) ==
    IF attr \in DOMAIN current_obj.attrs
    THEN Found(current_obj.attrs[attr])
    ELSE Raised("AttributeError")

\* isinstance(current_obj, dict)
is_dict(current_obj) == current_obj.kind = "dict"

\* isinstance(current_obj, (list, tuple))
is_list_or_tuple(current_obj) == current_obj.kind \in {"list", "tuple"}

\* the dispatch without the branch for dicts
lookup_no_dict_branch(current_obj, attr) ==
    IF is_list_or_tuple(current_obj) /\ isdigit(attr)
    THEN seq_getitem(current_obj, attr)
    ELSE getattr(current_obj, attr)

\* the dispatch of one step on the shape of current_obj
lookup(current_obj, attr) ==
    IF is_dict(current_obj) THEN dict_getitem(current_obj, attr)
    ELSE IF is_list_or_tuple(current_obj) /\ isdigit(attr)
    THEN seq_getitem(current_obj, attr)
    ELSE getattr(current_obj, attr)

\* except (KeyError, AttributeError, IndexError)
CaughtExceptions == {"KeyError", "AttributeError", "IndexError"}

\* the loop over parts[1:]
RECURSIVE traverse(_, _, _)
traverse(current_obj, attrs, key_path) ==
    IF Len(attrs) = 0 THEN Return(current_obj)
    ELSE LET attr == Head(attrs) IN
         IF startswith_underscore(attr)
         THEN Outcome("AccessDenied", "PermissionError", None, <<>>, <<>>, <<>>,
                      <<>>, attr, "")
         ELSE LET r == lookup(current_obj, attr) IN
              IF r.exc = "" THEN traverse(r.v, Tail(attrs), key_path)
              ELSE IF r.exc \in CaughtExceptions
              THEN Outcome("ResolutionFailed", "ValueError", None, <<>>, <<>>,
                           <<>>, key_path, attr, current_obj.type)
              ELSE Outcome("Uncaught", r.exc, None, <<>>, <<>>, <<>>, <<>>,
                           <<>>, "")

\* resolve that looks the whole key path up as the alias
resolve_whole_path(objs, hub, key_path) ==
    LET parts == split(key_path)
        ref_name == StrAlias(key_path)
    IN  IF ~contains(objs, ref_name)
        THEN Outcome("UnresolvedAlias", "KeyError", None, ref_name.s, hub,
                     dict_keys(objs), <<>>, <<>>, "")
        ELSE traverse(getitem(objs, ref_name), Tail(parts), key_path)

\* the outcome of resolve(key_path) on the registry named hub
resolve(objs, hub, key_path) ==
    LET parts == split(key_path)
        ref_name == StrAlias(parts[1])
    IN  IF ~contains(objs, ref_name)
        THEN Outcome("UnresolvedAlias", "KeyError", None, ref_name.s, hub,
                     dict_keys(objs), <<>>, <<>>, "")
        ELSE traverse(getitem(objs, ref_name), Tail(parts), key_path)

----------------------------------------------------------------------------
(* ObjectHub.unregister and ObjectHub.clear *)

unregister(objs, alias) ==
    IF contains(objs, alias) THEN delitem(objs, alias) ELSE objs

\* self._objects.popitem(): only the last item is removed
clear_popitem(objs) == SubSeq(objs, 1, Len(objs) - 1)

\* self._objects.clear()
clear(objs) == <<>>

----------------------------------------------------------------------------------------------------------------------------------------
(* The registry: objects is self._objects, name the name given at          *)
(* construction.  History: call, result and pre record the last call, its  *)
(* outcome and self._objects as it was before that call; removed holds,   *)
(* for each alias that unregister or clear removed and that was not        *)
(* registered again since, the alias k and the operation by that removed   *)
(* it; was_removed is removed as it was before the last call.  threads is  *)
(* used when several threads call the registry at once (see below).        *)

\* the instance_name property of ManagerMixin
instance_name == name

Call(op, alias, obj, force, key_path) ==
    [op |-> op, alias |-> alias, obj |-> obj, force |-> force,
     key_path |-> key_path]

\* the aliases present in a dict
present(d) == {d[i].k : i \in 1..Len(d)}

Init ==
    /\ objects = <<>>
    /\ name \in HubNames
    /\ call = Call("__init__", StrAlias(<<>>), None, FALSE, <<>>)
    /\ result = Return(None)
    /\ pre = <<>>
    /\ removed = {}
    /\ was_removed = {}
    /\ threads = <<>>

CallRegister ==
    \E alias \in AliasInputs, obj \in RegValues, force \in BOOLEAN :
        LET r == register(objects, alias, obj, force) IN
        /\ objects' = r.objects
        /\ result' = r.result
        /\ call' = Call("register", alias, obj, force, <<>>)
        /\ pre' = objects
        /\ removed' = {r0 \in removed : r0.k \notin present(r.objects)}
        /\ was_removed' = removed
        /\ UNCHANGED <<name, threads>>

\* resolve that reads the entry with self._objects.pop(ref_name)
CallResolve_pop ==
    \E key_path \in KeyPaths :
        /\ result' = resolve(objects, instance_name, key_path)
        /\ call' = Call("resolve", StrAlias(<<>>), None, FALSE, key_path)
        /\ pre' = objects
        /\ was_removed' = removed
        /\ objects' = unregister(objects, StrAlias(split(key_path)[1]))
        /\ UNCHANGED <<name, removed, threads>>

CallResolve ==
    \E key_path \in KeyPaths :
        /\ result' = resolve(objects, instance_name, key_path)
        /\ call' = Call("resolve", StrAlias(<<>>), None, FALSE, key_path)
        /\ pre' = objects
        /\ was_removed' = removed
        /\ UNCHANGED <<objects, name, removed, threads>>

CallUnregister ==
    \E alias \in AliasInputs :
        /\ objects' = unregister(objects, alias)
        /\ result' = Return(None)
        /\ call' = Call("unregister", alias, None, FALSE, <<>>)
        /\ pre' = objects
        /\ removed' = removed \cup
               {[k |-> k, by |-> "unregister"] : k \in present(objects) \ present(objects')}
        /\ was_removed' = removed
        /\ UNCHANGED <<name, threads>>

CallClear ==
    /\ objects' = clear(objects)
    /\ result' = Return(None)
    /\ call' = Call("clear", StrAlias(<<>>), None, FALSE, <<>>)
    /\ pre' = objects
    /\ removed' = removed \cup
           {[k |-> k, by |-> "clear"] : k \in present(objects) \ present(objects')}
    /\ was_removed' = removed
    /\ UNCHANGED <<name, threads>>

Next == CallRegister \/ CallResolve \/ CallUnregister \/ CallClear

Spec == Init /\ [][Next]_vars

----------------------------------------------------------------------------
(* Two threads that each make one call on the same registry.  The methods  *)
(* take no lock, so another thread may run between two accesses of         *)
(* self._objects; each action below is one access with the statements      *)
(* around it that touch nothing shared.  threads[t] holds the position pc  *)
(* of thread t, its call and, when pc is "done", the outcome.  pre is the  *)
(* registry before the two calls.                                          *)

Threads == {"t1", "t2"}

\* the key paths the threads resolve
ThreadKeyPaths == {<<"a">>, <<"a", ".", "a">>, <<"a", ".", "1">>}

\* the registries a sequence of register calls builds
Registries ==
    {d \in UNION {[1..n -> [k : ValidAliases, v : RegValues]] :
                      n \in 0..Cardinality(ValidAliases)} :
        \A i, j \in 1..Len(d) : i # j => d[i].k # d[j].k}

Thread(pc, c, r) == [pc |-> pc, call |-> c, result |-> r]

\* thread t moves to pc with call c, or ends call c with outcome r
Goto(t, pc, c) == threads' = [threads EXCEPT ![t] = Thread(pc, c, Return(None))]

Done(t, c, r) == threads' = [threads EXCEPT ![t] = Thread("done", c, r)]

\* a step of a thread leaves the name and the history of single calls alone
ThreadFrame == UNCHANGED <<name, call, result, pre, removed, was_removed>>

InitThreads ==
    /\ objects \in Registries
    /\ name \in HubNames
    /\ pre = objects
    /\ threads = [t \in Threads |->
                      Thread("idle", Call("__init__", StrAlias(<<>>), None, FALSE, <<>>),
                             Return(None))]
    /\ call = Call("__init__", StrAlias(<<>>), None, FALSE, <<>>)
    /\ result = Return(None)
    /\ removed = {}
    /\ was_removed = {}

\* register, lines 29-36: the validation and the test alias in self._objects
RegisterCheck(t) ==
    \E alias \in AliasInputs, obj \in RegValues, force \in BOOLEAN :
        LET c == Call("register", alias, obj, force, <<>>) IN
        /\ threads[t].pc = "idle"
        /\ ThreadFrame
        /\ IF invalid_alias(alias)
           THEN Done(t, c, Raise("InvalidAlias", "ValueError"))
           ELSE IF collision(objects, alias, force)
           THEN Done(t, c, Raise("AliasCollision", "ValueError"))
           ELSE Goto(t, "register_store", c)
        /\ UNCHANGED objects

\* register, line 37: self._objects[alias] = obj
RegisterStore(t) ==
    /\ threads[t].pc = "register_store"
    /\ ThreadFrame
    /\ objects' = setitem(objects, threads[t].call.alias, threads[t].call.obj)
    /\ Done(t, threads[t].call, Return(None))

\* unregister, line 79: the test alias in self._objects
UnregisterCheck(t) ==
    \E alias \in AliasInputs :
        LET c == Call("unregister", alias, None, FALSE, <<>>) IN
        /\ threads[t].pc = "idle"
        /\ ThreadFrame
        /\ IF contains(objects, alias)
           THEN Goto(t, "unregister_del", c)
           ELSE Done(t, c, Return(None))
        /\ UNCHANGED objects

\* unregister, line 80: del self._objects[alias] raises KeyError when the
\* alias is no longer there
UnregisterDel(t) ==
    /\ threads[t].pc = "unregister_del"
    /\ ThreadFrame
    /\ IF contains(objects, threads[t].call.alias)
       THEN /\ objects' = delitem(objects, threads[t].call.alias)
            /\ Done(t, threads[t].call, Return(None))
       ELSE /\ UNCHANGED objects
            /\ Done(t, threads[t].call, Raise("Uncaught", "KeyError"))

\* clear, line 84: self._objects.clear() is one access
ThreadClear(t) ==
    /\ threads[t].pc = "idle"
    /\ ThreadFrame
    /\ objects' = clear(objects)
    /\ Done(t, Call("clear", StrAlias(<<>>), None, FALSE, <<>>), Return(None))

\* resolve, lines 48-51: the test ref_name not in self._objects
ResolveCheck(t) ==
    \E key_path \in ThreadKeyPaths :
        LET c == Call("resolve", StrAlias(<<>>), None, FALSE, key_path)
            ref_name == StrAlias(split(key_path)[1])
        IN  /\ threads[t].pc = "idle"
            /\ ThreadFrame
            /\ IF ~contains(objects, ref_name)
               THEN Goto(t, "resolve_available", c)
               ELSE Goto(t, "resolve_read", c)
            /\ UNCHANGED objects

\* resolve, lines 52-55: list(self._objects.keys()) and the KeyError
ResolveAvailable(t) ==
    /\ threads[t].pc = "resolve_available"
    /\ ThreadFrame
    /\ Done(t, threads[t].call,
            Outcome("UnresolvedAlias", "KeyError", None,
                    split(threads[t].call.key_path)[1], instance_name,
                    dict_keys(objects), <<>>, <<>>, ""))
    /\ UNCHANGED objects

\* resolve, lines 56-75: self._objects[ref_name] raises KeyError when the
\* alias is no longer there; the traversal touches nothing of the registry
ResolveRead(t) ==
    LET key_path == threads[t].call.key_path
        parts == split(key_path)
        ref_name == StrAlias(parts[1])
    IN  /\ threads[t].pc = "resolve_read"
        /\ ThreadFrame
        /\ IF contains(objects, ref_name)
           THEN Done(t, threads[t].call,
                     traverse(getitem(objects, ref_name), Tail(parts), key_path))
           ELSE Done(t, threads[t].call, Raise("Uncaught", "KeyError"))
        /\ UNCHANGED objects

NextThreads ==
    \E t \in Threads :
        \/ RegisterCheck(t) \/ RegisterStore(t)
        \/ UnregisterCheck(t) \/ UnregisterDel(t)
        \/ ThreadClear(t)
        \/ ResolveCheck(t) \/ ResolveAvailable(t) \/ ResolveRead(t)

SpecThreads == InitThreads /\ [][NextThreads]_vars

----------------------------------------------------------------------------
(* Properties.  They are stated over the last call, its outcome and the    *)
(* registry before and after it.                                           *)

\* the segments of the key path of the last call
parts_of_call == split(call.key_path)

\* a step that names a private attribute
Private(step) == Len(step) > 0 /\ Head(step) = "_"

\* an alias that register must accept
WellFormed(alias) == alias.isStr /\ Len(alias.s) > 0

\* the key path made of the first i segments of the key path of the last call
Prefix(i) == join(SubSeq(parts_of_call, 1, i))

\* what resolve gives for that prefix on the registry the last call found
Before(i) == resolve(pre, name, Prefix(i))

\* C1: after register(a, v) succeeds the registry holds v under a, and
\* resolve(a) on a registry that holds v under a returns exactly v.
C1_ResolveReturnsRegistered ==
    /\ (call.op = "register" /\ result.kind = "return") =>
           (contains(objects, call.alias) /\ getitem(objects, call.alias) = call.obj)
    /\ (call.op = "resolve" /\ contains(pre, StrAlias(call.key_path))) =>
           result = Return(getitem(pre, StrAlias(call.key_path)))

\* C2: resolve never returns a value through a step that begins with '_':
\* when the steps before step i succeed and step i begins with '_', the
\* call fails with AccessDenied at step i, whatever the value reached.
C2_PrivateStepDenied ==
    call.op = "resolve" =>
        /\ result.kind = "return" =>
               \A i \in 2..Len(parts_of_call) : ~Private(parts_of_call[i])
        /\ \A i \in 2..Len(parts_of_call) :
               (Private(parts_of_call[i]) /\ Before(i - 1).kind = "return") =>
                   /\ result.kind = "AccessDenied"
                   /\ result.exc = "PermissionError"
                   /\ result.step = parts_of_call[i]

\* a private second step, after a first step that reached an object which has
\* an attribute of that name
C2_Witness ==
    /\ call.op = "resolve"
    /\ Len(parts_of_call) = 3
    /\ Private(parts_of_call[3])
    /\ Before(2).kind = "return"
    /\ parts_of_call[3] \in DOMAIN Before(2).val.attrs
    /\ result.kind = "AccessDenied"

\* C3: register without force on a present alias fails with AliasCollision
\* and leaves the registry exactly as it was.
C3_CollisionLeavesEntries ==
    (call.op = "register" /\ ~call.force /\ contains(pre, call.alias)) =>
        (result.kind = "AliasCollision" /\ objects = pre)

C3_Witness ==
    /\ call.op = "register" /\ ~call.force /\ contains(pre, call.alias)
    /\ call.obj # getitem(pre, call.alias)
    /\ Len(pre) = 2
    /\ result.kind = "AliasCollision"

\* C4: register with force=true and a non-empty string alias succeeds,
\* present or not; afterwards the alias holds the new value and every other
\* alias is present as before with the value it had.
C4_ForceOverwrites ==
    (call.op = "register" /\ call.force /\ WellFormed(call.alias)) =>
        /\ result = Return(None)
        /\ contains(objects, call.alias)
        /\ getitem(objects, call.alias) = call.obj
        /\ \A k \in (present(pre) \cup present(objects)) \ {call.alias} :
               /\ contains(pre, k) /\ contains(objects, k)
               /\ getitem(objects, k) = getitem(pre, k)

C4_Witness ==
    /\ call.op = "register" /\ call.force
    /\ contains(pre, call.alias)
    /\ getitem(pre, call.alias) # call.obj
    /\ Len(pre) = 2
    /\ result.kind = "return"
    /\ getitem(objects, call.alias) = call.obj

\* C5: every key of the registry is a non-empty string, and register with an
\* empty or non-string alias fails with InvalidAlias, forced or not, and
\* leaves the registry unchanged.
C5_KeysNonEmptyStrings ==
    /\ \A i \in 1..Len(objects) : objects[i].k.isStr /\ Len(objects[i].k.s) > 0
    /\ (call.op = "register" /\ ~WellFormed(call.alias)) =>
           (result.kind = "InvalidAlias" /\ objects = pre)

C5_Witness ==
    /\ call.op = "register" /\ ~call.alias.isStr /\ call.force
    /\ Len(pre) > 0
    /\ result.kind = "InvalidAlias"

\* C6: when the first segment of the key path is not a registered alias,
\* resolve fails with UnresolvedAlias and reports that segment, the name of
\* the registry and the list of the aliases registered at the call.
C6_UnresolvedAliasReport ==
    (call.op = "resolve" /\ ~contains(pre, StrAlias(parts_of_call[1]))) =>
        /\ result.kind = "UnresolvedAlias"
        /\ result.ref = parts_of_call[1]
        /\ result.hub = name
        /\ result.available = [i \in 1..Len(pre) |-> pre[i].k]

C6_Witness ==
    /\ call.op = "resolve"
    /\ Len(parts_of_call) > 1
    /\ Len(parts_of_call[1]) > 0
    /\ ~contains(pre, StrAlias(parts_of_call[1]))
    /\ Len(pre) > 0
    /\ result.kind = "UnresolvedAlias"

\* C7: when the lookup of a step fails, for whatever reason, resolve fails
\* with ResolutionFailed and reports the whole key path, that step and the
\* type name of the value the step was attempted on.
C7_LookupFailureIsResolutionFailed ==
    call.op = "resolve" =>
        \A i \in 2..Len(parts_of_call) :
            (/\ Before(i - 1).kind = "return"
             /\ ~Private(parts_of_call[i])
             /\ Before(i).kind # "return") =>
                /\ result.kind = "ResolutionFailed"
                /\ result.keyPath = call.key_path
                /\ result.step = parts_of_call[i]
                /\ result.typeName = Before(i - 1).val.type

\* C8: a step that does not begin with '_' is looked up by the precedence
\* mapping, then sequence with an all-digit step, then attribute: on a dict
\* as a key (an all-digit step too), on a list or tuple with an all-digit
\* step as the index int(step), and in every other case as a named field.
C8_LookupPrecedence ==
    call.op = "resolve" =>
        LET n == Len(parts_of_call)
            step == parts_of_call[n]
            cur == Before(n - 1).val
        IN  (n > 1 /\ Before(n - 1).kind = "return" /\ ~Private(step)) =>
                IF cur.kind = "dict"
                THEN IF step \in DOMAIN cur.keys
                     THEN result = Return(cur.keys[step])
                     ELSE result.kind = "ResolutionFailed"
                ELSE IF cur.kind \in {"list", "tuple"} /\ isdigit(step)
                THEN IF ~int_defined(step) THEN result.kind # "return"
                     ELSE IF int(step) < Len(cur.items)
                     THEN result = Return(cur.items[int(step) + 1])
                     ELSE result.kind = "ResolutionFailed"
                ELSE IF step \in DOMAIN cur.attrs
                     THEN result = Return(cur.attrs[step])
                     ELSE result.kind = "ResolutionFailed"

\* a tuple reached through an index, then read through a field name
C8_Witness ==
    /\ call.op = "resolve"
    /\ Len(parts_of_call) = 3
    /\ Before(1).kind = "return" /\ Before(1).val.kind = "list"
    /\ isdigit(parts_of_call[2])
    /\ Before(2).kind = "return" /\ Before(2).val.kind = "tuple"
    /\ ~isdigit(parts_of_call[3]) /\ ~Private(parts_of_call[3])
    /\ parts_of_call[3] \in DOMAIN Before(2).val.attrs
    /\ result = Return(Before(2).val.attrs[parts_of_call[3]])

\* C9: unregister never fails; it removes exactly its alias when present
\* and changes nothing when absent (so a second unregister changes
\* nothing), and after unregister(a) resolve(a) fails with UnresolvedAlias.
C9_UnregisterIdempotent ==
    /\ call.op = "unregister" =>
           /\ result = Return(None)
           /\ objects = SelectSeq(pre, LAMBDA e : e.k # call.alias)
           /\ ~contains(pre, call.alias) => objects = pre
    /\ (call.op = "resolve" /\
        [k |-> StrAlias(call.key_path), by |-> "unregister"] \in was_removed) =>
           result.kind = "UnresolvedAlias"

\* C10: clear never fails and leaves the registry empty, and on the empty
\* registry it leaves resolve fails with UnresolvedAlias for every key path.
C10_ClearEmpties ==
    /\ call.op = "clear" => (result = Return(None) /\ objects = <<>>)
    /\ (call.op = "resolve" /\ pre = <<>>) => result.kind = "UnresolvedAlias"

\* resolve, with traversal steps, on an alias that clear removed
C10_Witness ==
    /\ call.op = "resolve"
    /\ pre = <<>>
    /\ Len(parts_of_call) > 1
    /\ [k |-> StrAlias(parts_of_call[1]), by |-> "clear"] \in was_removed
    /\ result.kind = "UnresolvedAlias"

\* C11: resolve has no side effects: whether it returns a value or fails
\* with UnresolvedAlias, AccessDenied or ResolutionFailed, the registry
\* holds the same aliases with the same values, in the same order, after
\* the call as before it.
C11_ResolveLeavesEntries ==
    call.op = "resolve" => objects = pre

\* a resolve of two steps that returns, on a registry of two entries
C11_Witness ==
    /\ call.op = "resolve" /\ Len(pre) = 2
    /\ Len(parts_of_call) = 3
    /\ result.kind = "return"

\* the calls of the two threads are both over
BothDone == \A t \in Threads : threads[t].pc = "done"

\* C12: when two threads call register at once with the same absent alias
\* and force=false, exactly one call succeeds and the other fails with
\* AliasCollision.
C12_RegisterAtomic ==
    \A t, u \in Threads :
        (/\ t # u /\ BothDone
         /\ threads[t].call.op = "register" /\ threads[u].call.op = "register"
         /\ threads[t].call.alias = threads[u].call.alias
         /\ WellFormed(threads[t].call.alias)
         /\ ~contains(pre, threads[t].call.alias)
         /\ ~threads[t].call.force /\ ~threads[u].call.force) =>
            {threads[t].result.kind, threads[u].result.kind} =
                {"return", "AliasCollision"}

\* C13: unregister and clear never fail, whatever the other thread does.
C13_RemovalNeverFails ==
    \A t \in Threads :
        (threads[t].pc = "done" /\ threads[t].call.op \in {"unregister", "clear"}) =>
            threads[t].result = Return(None)

\* the values the alias of a key path can hold while the two calls run
ValuesUnder(ref_name, u) ==
    {getitem(pre, ref_name) : x \in {y \in {1} : contains(pre, ref_name)}} \cup
    {threads[u].call.obj : x \in {y \in {1} :
        threads[u].call.op = "register" /\ threads[u].call.alias = ref_name}}

\* C14: a resolve that runs while the other thread removes its alias either
\* gets a value that was registered under the alias and traverses it, or
\* fails with UnresolvedAlias carrying the alias, the name of the registry
\* and a list of aliases; the alias lookup fails in no other way.
C14_ResolveLookupAtomic ==
    \A t, u \in Threads :
        (/\ t # u /\ threads[t].pc = "done" /\ threads[t].call.op = "resolve"
         /\ threads[u].call.op \in {"unregister", "clear"}) =>
            LET key_path == threads[t].call.key_path
                parts == split(key_path)
                r == threads[t].result
            IN  \/ /\ r.kind = "UnresolvedAlias"
                   /\ r.ref = parts[1]
                   /\ r.hub = name
                   /\ \A i \in 1..Len(r.available) : r.available[i] \in ValidAliases
                \/ \E v \in ValuesUnder(StrAlias(parts[1]), u) :
                       r = traverse(v, Tail(parts), key_path)

\* C15: resolve examines the alias first and then the steps from left to
\* right and stops at the first failure: UnresolvedAlias when the alias is
\* absent, whatever the steps; otherwise the error and the step reported
\* are those of the earliest step that begins with '_' (AccessDenied) or
\* whose lookup fails (ResolutionFailed); a value is returned only when
\* every step succeeded.
C15_LeftToRight ==
    call.op = "resolve" =>
        /\ ~contains(pre, StrAlias(parts_of_call[1])) =>
               result.kind = "UnresolvedAlias"
        /\ \A i \in 2..Len(parts_of_call) :
               (Before(i - 1).kind = "return" /\ Before(i).kind # "return") =>
                   /\ result.kind = IF Private(parts_of_call[i])
                                    THEN "AccessDenied" ELSE "ResolutionFailed"
                   /\ result.step = parts_of_call[i]
        /\ result.kind = "return" =>
               \A i \in 1..Len(parts_of_call) :
                   Before(i).kind = "return" /\ ~Private(parts_of_call[i])

\* C16: the registry is empty at construction; an alias becomes present
\* only by a successful register of that alias, the value of a present
\* alias changes only by a forced register of that alias, an alias becomes
\* absent only by unregister of that alias or by clear; failed register
\* calls and resolve calls change nothing.
C16_Lifecycle ==
    /\ call.op = "__init__" => objects = <<>>
    /\ \A k \in present(objects) \ present(pre) :
           call.op = "register" /\ call.alias = k /\ result.kind = "return"
    /\ \A k \in present(objects) \cap present(pre) :
           getitem(objects, k) # getitem(pre, k) =>
               /\ call.op = "register" /\ call.alias = k /\ call.force
               /\ result.kind = "return"
    /\ \A k \in present(pre) \ present(objects) :
           \/ call.op = "unregister" /\ call.alias = k
           \/ call.op = "clear"
    /\ (call.op = "resolve" \/ (call.op = "register" /\ result.kind # "return")) =>
           objects = pre

\* unregister removes one of two aliases that hold the same value
C16_Witness ==
    /\ call.op = "unregister"
    /\ Len(pre) = 2 /\ pre[1].v = pre[2].v
    /\ contains(pre, call.alias)
    /\ Len(objects) = 1
    /\ objects[1].v = getitem(pre, call.alias)

\* C17: after unregister(a) or clear() removed a, register(a, v) without
\* force succeeds for a non-empty string alias a, and resolve(a) on the
\* registry it leaves returns the new v.
C17_NoResidue ==
    (/\ call.op = "register" /\ ~call.force /\ WellFormed(call.alias)
     /\ \E r \in was_removed : r.k = call.alias) =>
        /\ result = Return(None)
        /\ resolve(objects, name, call.alias.s) = Return(call.obj)

\* a step that has a sign
Signed(step) == Len(step) > 0 /\ Head(step) \in {"-", "+"}

\* C18: on a list or tuple of length n an all-digit step with int(step) < n
\* returns the element at that position (leading zeros allowed), one with
\* int(step) >= n fails with ResolutionFailed, and a step with a sign is
\* never an index: it is looked up as a field name and fails with
\* ResolutionFailed; whatever is returned is the element at a position
\* 0..n-1 named by the step, or a field of that name.
C18_IndexInRange ==
    call.op = "resolve" =>
        LET n == Len(parts_of_call)
            step == parts_of_call[n]
            cur == Before(n - 1).val
        IN  (n > 1 /\ Before(n - 1).kind = "return" /\ ~Private(step)
                   /\ cur.kind \in {"list", "tuple"}) =>
                /\ int_defined(step) =>
                       IF int(step) < Len(cur.items)
                       THEN result = Return(cur.items[int(step) + 1])
                       ELSE result.kind = "ResolutionFailed" /\ result.step = step
                /\ Signed(step) => result.kind = "ResolutionFailed"
                /\ result.kind = "return" =>
                       \/ int_defined(step) /\ int(step) < Len(cur.items)
                       \/ step \in DOMAIN cur.attrs /\ result.val = cur.attrs[step]

\* a step with a leading zero that returns the element at its position
C18_Witness ==
    /\ call.op = "resolve"
    /\ Len(parts_of_call) = 2
    /\ Len(parts_of_call[2]) = 2 /\ Head(parts_of_call[2]) = "0"
    /\ Before(1).kind = "return" /\ Before(1).val.kind = "list"
    /\ result = Return(Before(1).val.items[int(parts_of_call[2]) + 1])

====
